---- MODULE Spec2Model ----
(***************************************************************************)
(* GridWorld MDP solver (Value Iteration and Policy Iteration) of          *)
(* Assignment2_Web_JS/app.js, with its Reset / Step / Run controls.        *)
(*                                                                         *)
(* Numbers.  The program computes in floating point.  Here a value is an   *)
(* integer count of 1/VScale, a probability an integer count of 1/PDen,    *)
(* gamma a count of 1/GammaDen and slip a count of 1/SlipDen.  The inputs   *)
(* of the solver runs (Configs) are those for which every product and      *)
(* quotient of a sweep is exact in this representation (ArithExact is the  *)
(* invariant that says so); for them floating point is exact as well.      *)
(* The runs that compare the two algorithms (SpecExact) need gamma = 1/2;  *)
(* there the sweeps are computed in exact rational arithmetic over a       *)
(* denominator that grows with every sweep.                                *)
(*                                                                         *)
(* The inputs read from the page (algorithm, gamma, slip, step reward,     *)
(* max iterations) are chosen in Init and stay fixed during a behaviour.   *)
(***************************************************************************)
EXTENDS Integers, Sequences, FiniteSets, TLC

VARIABLES
    V,                  \* value table: state -> value (count of 1/VScale)
    policy,             \* policy table: state -> action or Null
    iter,               \* iteration counter
    lastDelta,          \* delta of the last sweep (count of 1/VScale)
    running,            \* the run flag
    piPolicy,           \* working policy of Policy Iteration
    piMode,             \* "EVAL" or "IMPROVE"
    piEvalSweepsLeft,   \* evaluation sweeps left before the improvement
    status,             \* statusOut.textContent
    algo,               \* algoEl.value
    gamma,              \* gammaEl.value, as a count of 1/GammaDen
    slip,               \* slipEl.value, as a count of 1/SlipDen
    stepReward,         \* stepRewardEl.value (an integer reward)
    maxIters,           \* maxItersEl.value
    pc,                 \* per runLoop activation: "idle" or "sleeping"
    stopReq,            \* history: "none", "asked" (runLoop was called
                        \* while the activation was suspended), "ignored"
                        \* (it called doOneStep after being asked)
    nsteps,             \* history: doOneStep calls made by the activation
    call,               \* the last call of a pure helper (SpecFn only)
    exact               \* SpecExact only: [den, viPolicy, stable], the
                        \* denominator of the exact tables and the history
                        \* of the runs compared

solver == <<V, policy, iter, lastDelta, running, piPolicy, piMode,
            piEvalSweepsLeft, status>>
config == <<algo, gamma, slip, stepReward, maxIters>>
loops  == <<pc, stopReq, nsteps>>
vars   == <<solver, config, loops, call, exact>>

----------------------------------------------------------------------------
(* Bounds of the model *)

GammaDen == 2       \* gamma is a multiple of 1/GammaDen
SlipDen  == 4       \* slip is a multiple of 1/SlipDen
MaxCap   == 23      \* largest max-iteration cap tried
MaxLoops == 2       \* runLoop activations that may be suspended at once

PDen   == 3 * SlipDen           \* a probability is a multiple of 1/PDen
VScale == GammaDen * PDen       \* a value is a multiple of 1/VScale

----------------------------------------------------------------------------
(* Grid *)

NROWS == 5
NCOLS == 5

key(r, c) == <<r, c>>

WALLS == {key(1, 1), key(1, 2), key(2, 2)}

TERMINALS == (key(0, 4) :> 10) @@ (key(4, 4) :> (0 - 10))

\* ACTIONS in the source (a reserved word here)
Actions == <<"U", "D", "L", "R">>

MOVE == ("U" :> <<0 - 1, 0>>) @@ ("D" :> <<1, 0>>) @@
        ("L" :> <<0, 0 - 1>>) @@ ("R" :> <<0, 1>>)

Null == "null"

isWall(k) == k \in WALLS

isTerminal(k) == k \in DOMAIN TERMINALS

inBounds(r, c) == r >= 0 /\ r < NROWS /\ c >= 0 /\ c < NCOLS

\* nextStateDet without its wall check
nextStateDet_noWall(r, c, a) ==
    LET k  == key(r, c)
        nr == r + MOVE[a][1]
        nc == c + MOVE[a][2]
    IN  IF isTerminal(k) THEN k
        ELSE IF ~inBounds(nr, nc) THEN k
        ELSE key(nr, nc)

\* nextStateDet without its terminal check
nextStateDet_noTerminal(r, c, a) ==
    LET nr == r + MOVE[a][1]
        nc == c + MOVE[a][2]
    IN  IF ~inBounds(nr, nc) THEN key(r, c)
        ELSE IF isWall(key(nr, nc)) THEN key(r, c)
        ELSE key(nr, nc)

nextStateDet(r, c, a) ==
    LET k  == key(r, c)
        nr == r + MOVE[a][1]
        nc == c + MOVE[a][2]
        nk == key(nr, nc)
    IN  IF isTerminal(k) THEN k
        ELSE IF ~inBounds(nr, nc) THEN k
        ELSE IF isWall(nk) THEN k
        ELSE nk

reward(stateKey) ==
    IF isTerminal(stateKey) THEN TERMINALS[stateKey] * VScale
    ELSE stepReward * VScale

\* otherActions in the reverse order
otherActions_reversed(action) ==
    SelectSeq(<<"R", "L", "D", "U">>, LAMBDA a2 : a2 # action)

\* the actions other than `action`, in the order of Actions
otherActions(action) == SelectSeq(Actions, LAMBDA a2 : a2 # action)

\* pInt that forgets the slip
pInt_noSlip == PDen

pInt == PDen - 3 * slip         \* 1.0 - slip

pOther == (3 * slip) \div 3     \* slip / 3.0

transitions(stateKey, action) ==
    IF isTerminal(stateKey)
    THEN << [p |-> PDen, ns |-> stateKey, r |-> 0] >>
    ELSE LET r  == stateKey[1]
             c  == stateKey[2]
             nsInt == nextStateDet(r, c, action)
             rest  == otherActions(action)
         IN  << [p |-> pInt, ns |-> nsInt, r |-> reward(nsInt)] >> \o
             [i \in 1..Len(rest) |->
                 LET ns2 == nextStateDet(r, c, rest[i])
                 IN  [p |-> pOther, ns |-> ns2, r |-> reward(ns2)]]

AllCells == [i \in 1..(NROWS * NCOLS) |->
                key((i - 1) \div NCOLS, (i - 1) % NCOLS)]

allStates == SelectSeq(AllCells, LAMBDA k : ~isWall(k))

States == {allStates[i] : i \in 1..Len(allStates)}

----------------------------------------------------------------------------
(* Solver state as one record, so that the handlers compose *)

Cur == [V |-> V, policy |-> policy, iter |-> iter, lastDelta |-> lastDelta,
        running |-> running, piPolicy |-> piPolicy, piMode |-> piMode,
        piEvalSweepsLeft |-> piEvalSweepsLeft, status |-> status]

Set(st) ==
    /\ V' = st.V
    /\ policy' = st.policy
    /\ iter' = st.iter
    /\ lastDelta' = st.lastDelta
    /\ running' = st.running
    /\ piPolicy' = st.piPolicy
    /\ piMode' = st.piMode
    /\ piEvalSweepsLeft' = st.piEvalSweepsLeft
    /\ status' = st.status

Is(st) ==
    /\ V = st.V
    /\ policy = st.policy
    /\ iter = st.iter
    /\ lastDelta = st.lastDelta
    /\ running = st.running
    /\ piPolicy = st.piPolicy
    /\ piMode = st.piMode
    /\ piEvalSweepsLeft = st.piEvalSweepsLeft
    /\ status = st.status

(* statusOut.textContent values *)
StReady      == "Ready"
StMax        == "Reached max iterations"
StRunVI      == "Running VI step..."
StRunPI(m)   == IF m = "EVAL" THEN "Running PI step (EVAL)..."
                ELSE "Running PI step (IMPROVE)..."
StConvVI     == "Converged (delta small)"
StConvPI     == "Converged (policy stable)"
StImproved   == "PI: improved, evaluating..."
StStopped    == "Stopped"
StRunning    == "Running... (click Run again to stop)"

\* statusOut.textContent.includes("Converged")
includesConverged(s) == s \in {StConvVI, StConvPI}

----------------------------------------------------------------------------
(* Arithmetic helpers *)

\* F applied to the value of x, with x evaluated once
With(x, F(_)) == CHOOSE y \in {F(z) : z \in {x}} : TRUE

Abs(x) == IF x < 0 THEN 0 - x ELSE x

\* maximum of 0 and the elements of a set of naturals: the Math.max folds
\* of the sweeps, which start from 0
MaxOf(S) == IF S = {} THEN 0 ELSE CHOOSE y \in S : \A z \in S : y >= z

\* -1e9, the initial best Q; kept in whole units, every Q of the bounded
\* runs is far above it in either unit
BestInit == 0 - 1000000000

\* lastDelta < 1e-4
belowThreshold(d) == d * 10000 < VScale

\* one term of q:  t.p * (t.r + gamma * V[t.ns]), over PDen
qTerm(Vt, t) == t.p * (t.r + (gamma * Vt[t.ns]) \div GammaDen)

\* for(const t of transitions(s,a)) q += ...  from q = acc, over ts[i..]
RECURSIVE qFrom(_, _, _, _)
qFrom(Vt, ts, i, acc) ==
    IF i > Len(ts) THEN acc
    ELSE qFrom(Vt, ts, i + 1, acc + qTerm(Vt, ts[i]))

\* numerator of q, over PDen
qNum(Vt, s, a) ==
    With(transitions(s, a), LAMBDA ts : qFrom(Vt, ts, 1, 0))

\* q of the inner loops of the sweeps
qValue(Vt, s, a) == qNum(Vt, s, a) \div PDen

\* bestFrom that lets a later action of equal Q win (>= for >)
RECURSIVE bestFrom_lastTie(_, _, _, _)
bestFrom_lastTie(Vt, s, i, best) ==
    IF i > Len(Actions) THEN best
    ELSE With(qValue(Vt, s, Actions[i]), LAMBDA q :
            bestFrom_lastTie(Vt, s, i + 1,
                IF q >= best.q THEN [a |-> Actions[i], q |-> q] ELSE best))

\* for(const a of ACTIONS){ ...; if(q > bestQ){ bestQ=q; bestA=a; } }
\* from the pair best = [a |-> bestA, q |-> bestQ], over ACTIONS[i..]
RECURSIVE bestFrom(_, _, _, _)
bestFrom(Vt, s, i, best) ==
    IF i > Len(Actions) THEN best
    ELSE With(qValue(Vt, s, Actions[i]), LAMBDA q :
            bestFrom(Vt, s, i + 1,
                IF q > best.q THEN [a |-> Actions[i], q |-> q] ELSE best))

greedyPolicyFromV(Vt) ==
    [s \in States |->
        IF isTerminal(s) THEN Null
        ELSE bestFrom(Vt, s, 1, [a |-> "U", q |-> BestInit]).a]

initTables(st) ==
    [st EXCEPT !.V = [s \in States |-> 0],
               !.policy = [s \in States |->
                              IF isTerminal(s) THEN Null ELSE "R"]]

----------------------------------------------------------------------------
(* Algorithms *)

\* the sweep done in place: each state reads the table as updated so far
RECURSIVE viInPlaceFrom(_, _)
viInPlaceFrom(Vt, i) ==
    IF i > Len(allStates) THEN Vt
    ELSE With(allStates[i], LAMBDA s :
            viInPlaceFrom(
                [Vt EXCEPT ![s] =
                    IF isTerminal(s) THEN 0
                    ELSE bestFrom(Vt, s, 1, [a |-> Null, q |-> BestInit]).q],
                i + 1))

viNewV_inPlace(Vt) == viInPlaceFrom(Vt, 1)

\* the new table of valueIterationSweep
viNewV(Vt) ==
    [s \in States |->
        IF isTerminal(s) THEN 0
        ELSE bestFrom(Vt, s, 1, [a |-> Null, q |-> BestInit]).q]

valueIterationSweep(st) ==
    With(st.V, LAMBDA Vt :
    With(viNewV(Vt), LAMBDA newV :
        [st EXCEPT !.V = newV,
                   !.lastDelta = MaxOf({Abs(newV[s] - Vt[s]) :
                                    s \in {x \in States : ~isTerminal(x)}}),
                   !.policy = greedyPolicyFromV(newV)]))

\* piEvalSweep that switches to IMPROVE one sweep late (< for <=)
piEvalSweep_lateImprove(st) ==
    With(st.V, LAMBDA Vt :
    With([s \in States |->
             IF isTerminal(s) THEN 0 ELSE qValue(Vt, s, st.piPolicy[s])],
         LAMBDA newV :
        [st EXCEPT !.V = newV,
                   !.lastDelta = MaxOf({Abs(newV[s] - Vt[s]) : s \in States}),
                   !.piEvalSweepsLeft = st.piEvalSweepsLeft - 1,
                   !.piMode = IF st.piEvalSweepsLeft - 1 < 0
                              THEN "IMPROVE" ELSE "EVAL",
                   !.policy = st.piPolicy]))

\* piEvalSweep that exposes the greedy policy of the new table
piEvalSweep_showGreedy(st) ==
    With(st.V, LAMBDA Vt :
    With([s \in States |->
             IF isTerminal(s) THEN 0 ELSE qValue(Vt, s, st.piPolicy[s])],
         LAMBDA newV :
        [st EXCEPT !.V = newV,
                   !.lastDelta = MaxOf({Abs(newV[s] - Vt[s]) : s \in States}),
                   !.piEvalSweepsLeft = st.piEvalSweepsLeft - 1,
                   !.piMode = IF st.piEvalSweepsLeft - 1 <= 0
                              THEN "IMPROVE" ELSE "EVAL",
                   !.policy = greedyPolicyFromV(newV)]))

\* policyIterationStep, piMode === "EVAL"
piEvalSweep(st) ==
    With(st.V, LAMBDA Vt :
    With([s \in States |->
             IF isTerminal(s) THEN 0 ELSE qValue(Vt, s, st.piPolicy[s])],
         LAMBDA newV :
        [st EXCEPT !.V = newV,
                   !.lastDelta = MaxOf({Abs(newV[s] - Vt[s]) : s \in States}),
                   !.piEvalSweepsLeft = st.piEvalSweepsLeft - 1,
                   !.piMode = IF st.piEvalSweepsLeft - 1 <= 0
                              THEN "IMPROVE" ELSE "EVAL",
                   !.policy = st.piPolicy]))

\* the working policy after the improvement loop
piImproved(Vt, pol) ==
    [s \in States |->
        IF isTerminal(s) THEN pol[s]
        ELSE bestFrom(Vt, s, 1, [a |-> pol[s], q |-> BestInit]).a]

\* piImproveSweep that leaves the run flag set when stable
piImproveSweep_keepRunning(st) ==
    With(piImproved(st.V, st.piPolicy), LAMBDA newPol :
        [st EXCEPT !.piPolicy = newPol,
                   !.policy = newPol,
                   !.lastDelta = 0,
                   !.piMode = "EVAL",
                   !.piEvalSweepsLeft = 10,
                   !.status = IF newPol = st.piPolicy
                              THEN StConvPI ELSE StImproved])

\* policyIterationStep, piMode === "IMPROVE"
piImproveSweep(st) ==
    With(piImproved(st.V, st.piPolicy), LAMBDA newPol :
        [st EXCEPT !.piPolicy = newPol,
                   !.policy = newPol,
                   !.lastDelta = 0,
                   !.piMode = "EVAL",
                   !.piEvalSweepsLeft = 10,
                   !.status = IF newPol = st.piPolicy
                              THEN StConvPI ELSE StImproved,
                   !.running = IF newPol = st.piPolicy
                               THEN FALSE ELSE st.running])

policyIterationStep(st) ==
    IF st.piMode = "EVAL" THEN piEvalSweep(st)
    ELSE IF st.piMode = "IMPROVE" THEN piImproveSweep(st)
    ELSE st

----------------------------------------------------------------------------
(* Controls *)

\* resetAll that leaves lastDelta as it was
resetAll_keepDelta(st) ==
    [initTables(st) EXCEPT
        !.iter = 0,
        !.running = FALSE,
        !.piPolicy = [s \in States |-> IF isTerminal(s) THEN Null ELSE "R"],
        !.piMode = "EVAL",
        !.piEvalSweepsLeft = 10,
        !.status = StReady]

resetAll(st) ==
    [initTables(st) EXCEPT
        !.iter = 0,
        !.lastDelta = 0,
        !.running = FALSE,
        !.piPolicy = [s \in States |-> IF isTerminal(s) THEN Null ELSE "R"],
        !.piMode = "EVAL",
        !.piEvalSweepsLeft = 10,
        !.status = StReady]

\* the VI branch without its convergence report
viStep_noConverged(st) == valueIterationSweep(st)

\* the VI branch of doOneStep
viStep(st) ==
    With(valueIterationSweep(st), LAMBDA t :
        IF belowThreshold(t.lastDelta)
        THEN [t EXCEPT !.status = StConvVI, !.running = FALSE]
        ELSE t)

\* doOneStep past its guard
stepBody(st) ==
    With(IF algo = "VI" THEN viStep([st EXCEPT !.status = StRunVI])
         ELSE policyIterationStep([st EXCEPT !.status = StRunPI(st.piMode)]),
         LAMBDA s2 : [s2 EXCEPT !.iter = s2.iter + 1])

\* doOneStep without its guard
doOneStep_noGuard(st) == stepBody(st)

\* doOneStep with its guard off by one (> for >=)
doOneStep_guardOffByOne(st) ==
    IF st.iter > maxIters THEN [st EXCEPT !.status = StMax]
    ELSE stepBody(st)

doOneStep(st) ==
    IF st.iter >= maxIters THEN [st EXCEPT !.status = StMax]
    ELSE stepBody(st)

LoopIds == 1..MaxLoops

\* loopBody without the status line after the loop
loopBody_noMaxStatus(st) ==
    IF st.running /\ st.iter < maxIters
    THEN [st |-> doOneStep(st), cont |-> TRUE]
    ELSE [st |-> st, cont |-> FALSE]

\* while(running && iter < maxIters){ doOneStep(); await sleep(60); ... }
\* up to the next await (cont) or out of the loop, with the lines after it
loopBody(st) ==
    IF st.running /\ st.iter < maxIters
    THEN [st |-> doOneStep(st), cont |-> TRUE]
    ELSE [st |-> IF st.iter >= maxIters THEN [st EXCEPT !.status = StMax]
                 ELSE st,
          cont |-> FALSE]

\* the two checks of runLoop after await sleep(60)
afterSleep(st) ==
    IF (algo = "VI" /\ belowThreshold(st.lastDelta))
       \/ includesConverged(st.status)
    THEN [st EXCEPT !.running = FALSE] ELSE st

\* runLoop, called while running: the request to stop
runStop(st) == [st EXCEPT !.running = FALSE, !.status = StStopped]

\* runLoop, called while not running, up to its first await or its return
runStart(st) == loopBody([st EXCEPT !.running = TRUE, !.status = StRunning])


----------------------------------------------------------------------------
(* Inputs *)

Algos == {"VI", "PI"}

\* step rewards of the calls of the pure helpers
StepRewards == {0 - 1, 0}

\* step reward of the solver runs
RunStepRewards == {0 - 1}

Caps == {0, 1, 2, MaxCap}

\* <<gamma, slip>> for which the sweeps are exact
ExactGammaSlip == {<<0, 0>>, <<GammaDen, 0>>, <<0, SlipDen>>}

NoCall == [fn |-> "none", s |-> key(0, 0), a |-> "U", out |-> <<>>,
           det |-> key(0, 0)]

\* no exact run
NoExact == [den |-> <<>>, viPolicy |-> <<>>, stable |-> FALSE]

\* the module-level initial values, before the first resetAll()
Boot == [V |-> <<>>, policy |-> <<>>, iter |-> 0, lastDelta |-> 0,
         running |-> FALSE, piPolicy |-> <<>>, piMode |-> "EVAL",
         piEvalSweepsLeft |-> 0, status |-> ""]

Init ==
    /\ algo \in Algos
    /\ \E gs \in ExactGammaSlip : gamma = gs[1] /\ slip = gs[2]
    /\ stepReward \in RunStepRewards
    /\ maxIters \in Caps
    /\ Is(resetAll(Boot))
    /\ pc = [l \in LoopIds |-> "idle"]
    /\ stopReq = [l \in LoopIds |-> "none"]
    /\ nsteps = [l \in LoopIds |-> 0]
    /\ call = NoCall
    /\ exact = NoExact

----------------------------------------------------------------------------
(* Actions: the three buttons and the timer *)

Reset ==
    /\ \E st \in {resetAll(Cur)} : Set(st)
    /\ UNCHANGED <<config, loops, call, exact>>

Step ==
    /\ \E st \in {doOneStep(Cur)} : Set(st)
    /\ UNCHANGED <<config, loops, call, exact>>

RunStop ==
    /\ running
    /\ Set(runStop(Cur))
    /\ stopReq' = [l \in LoopIds |->
                      IF pc[l] = "sleeping" /\ stopReq[l] = "none"
                      THEN "asked" ELSE stopReq[l]]
    /\ UNCHANGED <<config, pc, nsteps, call, exact>>

\* runLoop called while not running, by activation l
runStartBy(l) ==
    /\ ~running
    /\ pc[l] = "idle"
    /\ \A k \in LoopIds : k < l => pc[k] = "sleeping"
    /\ \E r \in {runStart(Cur)} :
           /\ Set(r.st)
           /\ pc' = [pc EXCEPT ![l] = IF r.cont THEN "sleeping" ELSE "idle"]
    /\ UNCHANGED <<config, stopReq, call, exact>>

\* the timer of activation l fires: runLoop resumes after its await
wakeBy(l) ==
    /\ pc[l] = "sleeping"
    /\ \E r \in {loopBody(afterSleep(Cur))} :
           /\ Set(r.st)
           /\ pc' = [pc EXCEPT ![l] = IF r.cont THEN "sleeping" ELSE "idle"]
           /\ stopReq' = [stopReq EXCEPT
                            ![l] = IF ~r.cont THEN "none"
                                   ELSE IF stopReq[l] = "none" THEN "none"
                                   ELSE "ignored"]
    /\ UNCHANGED <<config, call, exact>>

RunStart(l) == runStartBy(l) /\ UNCHANGED nsteps

Wake(l) == wakeBy(l) /\ UNCHANGED nsteps

Next ==
    \/ Reset
    \/ Step
    \/ RunStop
    \/ \E l \in LoopIds : RunStart(l)
    \/ \E l \in LoopIds : Wake(l)

Spec == Init /\ [][Next]_vars

----------------------------------------------------------------------------
(* A run left to itself: the buttons are pressed only while no runLoop     *)
(* activation is suspended, and a suspended activation is resumed by its   *)
(* timer (setTimeout fires: weak fairness of the wake-up).  nsteps counts  *)
(* the doOneStep calls of the activation.                                  *)

Quiet == \A l \in LoopIds : pc[l] = "idle"

RunStartCounted(l) ==
    /\ runStartBy(l)
    /\ nsteps' = [nsteps EXCEPT ![l] = IF pc'[l] = "sleeping" THEN 1 ELSE 0]

WakeCounted(l) ==
    /\ wakeBy(l)
    /\ nsteps' = [nsteps EXCEPT ![l] = IF pc'[l] = "sleeping"
                                       THEN nsteps[l] + 1 ELSE nsteps[l]]

NextRun ==
    \/ Quiet /\ Reset
    \/ Quiet /\ Step
    \/ Quiet /\ RunStop
    \/ \E l \in LoopIds : Quiet /\ RunStartCounted(l)
    \/ \E l \in LoopIds : WakeCounted(l)

SpecRun == Init /\ [][NextRun]_vars
                /\ WF_vars(\E l \in LoopIds : WakeCounted(l))

----------------------------------------------------------------------------
(* The pure helpers of the transition model, called on every non-wall      *)
(* state and action, for every slip in [0,1] that is a multiple of         *)
(* 1/SlipDen (0 and 1 included).                                           *)

InitFn ==
    /\ algo = "VI"
    /\ gamma = GammaDen
    /\ slip \in 0..SlipDen
    /\ stepReward \in StepRewards
    /\ maxIters = 0
    /\ Is(resetAll(Boot))
    /\ pc = [l \in LoopIds |-> "idle"]
    /\ stopReq = [l \in LoopIds |-> "none"]
    /\ nsteps = [l \in LoopIds |-> 0]
    /\ call = NoCall
    /\ exact = NoExact

CallTransitions(s, i) ==
    /\ call' = [fn |-> "transitions", s |-> s, a |-> Actions[i],
                out |-> transitions(s, Actions[i]), det |-> s]
    /\ UNCHANGED <<solver, config, loops, exact>>

CallNextStateDet(s, i) ==
    /\ call' = [fn |-> "nextStateDet", s |-> s, a |-> Actions[i],
                out |-> <<>>, det |-> nextStateDet(s[1], s[2], Actions[i])]
    /\ UNCHANGED <<solver, config, loops, exact>>

NextFn ==
    \/ \E s \in States, i \in 1..Len(Actions) : CallTransitions(s, i)
    \/ \E s \in States, i \in 1..Len(Actions) : CallNextStateDet(s, i)

SpecFn == InitFn /\ [][NextFn]_vars

----------------------------------------------------------------------------
(* The solver in exact rational arithmetic, for the configurations whose   *)
(* values do not stay multiples of 1/VScale (gamma = 1/GammaDen).  The     *)
(* entries of V and lastDelta are numerators over a common denominator     *)
(* exact.den, which is 1 after resetAll and which every sweep multiplies by *)
(* VScale.  Numerators and denominator are numbers of NLimbs digits in     *)
(* base LimbBase, lowest digit first; the highest digit carries the sign.  *)

NLimbs   == 26      \* digits of an exact number
LimbBase == 10000   \* base of the digits
ExactCap == 56      \* max-iteration cap of the exact runs

\* x, computed in full before it is used
Strict(x) == CHOOSE y \in {x} : y = y

bigZero == [i \in 1..NLimbs |-> 0]

bigOne == [i \in 1..NLimbs |-> IF i = 1 THEN 1 ELSE 0]

\* the digits of x from digit i on, with carry c coming in
RECURSIVE bigCarry(_, _, _)
bigCarry(x, i, c) ==
    IF i = NLimbs THEN <<x[i] + c>>
    ELSE With(x[i] + c, LAMBDA v :
            <<v % LimbBase>> \o bigCarry(x, i + 1, v \div LimbBase))

bigNorm(x) == bigCarry(x, 1, 0)

bigScale(x, k) == bigNorm([i \in 1..NLimbs |-> k * x[i]])

bigSub(x, y) == bigNorm([i \in 1..NLimbs |-> x[i] - y[i]])

bigNeg(x) == x[NLimbs] < 0

\* x > y
bigGreater(x, y) == bigNeg(bigSub(y, x))

bigAbs(x) == IF bigNeg(x) THEN bigScale(x, 0 - 1) ELSE x

\* digit i of the sum of t.p * (t.r + gamma * V[t.ns]) over ts[j..], as a
\* numerator over den * VScale
RECURSIVE exDigitFrom(_, _, _, _, _, _)
exDigitFrom(Vt, den, ts, i, j, acc) ==
    IF j > Len(ts) THEN acc
    ELSE exDigitFrom(Vt, den, ts, i, j + 1,
            acc + ts[j].p * ((ts[j].r \div PDen) * den[i]
                             + gamma * Vt[ts[j].ns][i]))

\* q of the inner loops of the sweeps, over den * VScale
exQ(Vt, den, s, a) ==
    With(transitions(s, a), LAMBDA ts :
        bigNorm([i \in 1..NLimbs |-> exDigitFrom(Vt, den, ts, i, 1, 0)]))

\* -1e9 over den * VScale
exBestInit(den) ==
    bigScale(bigScale(bigScale(den, VScale), 100000), 0 - 10000)

\* the best-action loop, as bestFrom
RECURSIVE exBestFrom(_, _, _, _, _)
exBestFrom(Vt, den, s, i, best) ==
    IF i > Len(Actions) THEN best
    ELSE With(exQ(Vt, den, s, Actions[i]), LAMBDA q :
         With(IF bigGreater(q, best.q) THEN [a |-> Actions[i], q |-> q]
              ELSE best,
              LAMBDA b2 : exBestFrom(Vt, den, s, i + 1, b2)))

\* greedyPolicyFromV on a table over den
exGreedyPolicyFromV(Vt, den) ==
    With(exBestInit(den), LAMBDA b0 :
        [s \in States |->
            IF isTerminal(s) THEN Null
            ELSE exBestFrom(Vt, den, s, 1, [a |-> "U", q |-> b0]).a])

\* the largest |newV[s] - V[s]| over the states of ss, or 0: the Math.max
\* fold of the sweeps; both tables taken over the denominator of newV
exMaxDelta(newV, Vt, ss) ==
    With({bigZero} \cup
         {bigAbs(bigSub(newV[ss[i]], bigScale(Vt[ss[i]], VScale))) :
             i \in 1..Len(ss)},
         LAMBDA S : CHOOSE x \in S : \A y \in S : ~bigGreater(y, x))

\* lastDelta < 1e-4
exBelowThreshold(d, den) == bigGreater(den, bigScale(d, 10000))

exValueIterationSweep(st) ==
    With(st.V, LAMBDA Vt :
    With(exBestInit(st.den), LAMBDA b0 :
    With(Strict([s \in States |->
             IF isTerminal(s) THEN bigZero
             ELSE exBestFrom(Vt, st.den, s, 1, [a |-> Null, q |-> b0]).q]),
         LAMBDA newV :
    With(bigScale(st.den, VScale), LAMBDA newDen :
        [st EXCEPT !.V = newV,
                   !.den = newDen,
                   !.lastDelta =
                       exMaxDelta(newV, Vt,
                           SelectSeq(allStates, LAMBDA x : ~isTerminal(x))),
                   !.policy = exGreedyPolicyFromV(newV, newDen)]))))

\* policyIterationStep, piMode === "EVAL"
exPiEvalSweep(st) ==
    With(st.V, LAMBDA Vt :
    With(Strict([s \in States |->
             IF isTerminal(s) THEN bigZero
             ELSE exQ(Vt, st.den, s, st.piPolicy[s])]),
         LAMBDA newV :
        [st EXCEPT !.V = newV,
                   !.den = bigScale(st.den, VScale),
                   !.lastDelta = exMaxDelta(newV, Vt, allStates),
                   !.piEvalSweepsLeft = st.piEvalSweepsLeft - 1,
                   !.piMode = IF st.piEvalSweepsLeft - 1 <= 0
                              THEN "IMPROVE" ELSE "EVAL",
                   !.policy = st.piPolicy]))

\* policyIterationStep, piMode === "IMPROVE"
exPiImproveSweep(st) ==
    With(exBestInit(st.den), LAMBDA b0 :
    With(Strict([s \in States |->
             IF isTerminal(s) THEN st.piPolicy[s]
             ELSE exBestFrom(st.V, st.den, s, 1,
                             [a |-> st.piPolicy[s], q |-> b0]).a]),
         LAMBDA newPol :
        [st EXCEPT !.piPolicy = newPol,
                   !.policy = newPol,
                   !.lastDelta = bigZero,
                   !.piMode = "EVAL",
                   !.piEvalSweepsLeft = 10,
                   !.status = IF newPol = st.piPolicy
                              THEN StConvPI ELSE StImproved,
                   !.running = IF newPol = st.piPolicy
                               THEN FALSE ELSE st.running]))

exPolicyIterationStep(st) ==
    IF st.piMode = "EVAL" THEN exPiEvalSweep(st)
    ELSE IF st.piMode = "IMPROVE" THEN exPiImproveSweep(st)
    ELSE st

\* the VI branch of doOneStep
exViStep(st) ==
    With(exValueIterationSweep(st), LAMBDA t :
        IF exBelowThreshold(t.lastDelta, t.den)
        THEN [t EXCEPT !.status = StConvVI, !.running = FALSE]
        ELSE t)

exDoOneStep(st) ==
    IF st.iter >= maxIters THEN [st EXCEPT !.status = StMax]
    ELSE With(IF algo = "VI" THEN exViStep([st EXCEPT !.status = StRunVI])
              ELSE exPolicyIterationStep(
                       [st EXCEPT !.status = StRunPI(st.piMode)]),
              LAMBDA s2 : [s2 EXCEPT !.iter = s2.iter + 1])

exResetAll(st) ==
    [resetAll(st) EXCEPT !.V = [s \in States |-> bigZero],
                         !.lastDelta = bigZero,
                         !.den = bigOne]

\* the solver state with the denominator of its tables
ExCur == Cur @@ [den |-> exact.den]

\* <<gamma, slip>> of the exact runs: gamma = 1/GammaDen, no slip or
\* nothing but slip
HalfGammaSlip == {<<1, 0>>, <<1, SlipDen>>}

InitExact ==
    /\ algo = "VI"
    /\ \E gs \in HalfGammaSlip : gamma = gs[1] /\ slip = gs[2]
    /\ stepReward \in StepRewards
    /\ maxIters = ExactCap
    /\ Is(exResetAll(Boot @@ [den |-> bigOne]))
    /\ pc = [l \in LoopIds |-> "idle"]
    /\ stopReq = [l \in LoopIds |-> "none"]
    /\ nsteps = [l \in LoopIds |-> 0]
    /\ call = NoCall
    /\ exact = [den |-> bigOne, viPolicy |-> <<>>, stable |-> FALSE]

\* the Step button
ExStep ==
    /\ \E st \in {exDoOneStep(ExCur)} :
           /\ Set(st)
           /\ exact' = [den |-> st.den,
                        viPolicy |-> IF algo = "VI" /\ st.status = StConvVI
                                     THEN st.policy ELSE exact.viPolicy,
                        stable |-> \/ exact.stable
                                   \/ algo = "PI" /\ st.status = StConvPI]
    /\ UNCHANGED <<config, loops, call>>

\* after a Value Iteration run has converged: Policy Iteration is selected
\* and Reset is clicked
ExSelectPI ==
    /\ algo = "VI" /\ status = StConvVI
    /\ algo' = "PI"
    /\ \E st \in {exResetAll(ExCur)} :
           Set(st) /\ exact' = [exact EXCEPT !.den = st.den]
    /\ UNCHANGED <<gamma, slip, stepReward, maxIters, loops, call>>

NextExact == ExStep \/ ExSelectPI

SpecExact == InitExact /\ [][NextExact]_vars

----------------------------------------------------------------------------
(* The representation of numbers is exact on the runs of the solver: no    *)
(* quotient of a sweep over the current table leaves a remainder, and      *)
(* every Q is above the initial best Q.                                    *)

ArithExact ==
    \A s \in States : \A i \in 1..Len(Actions) :
        /\ (gamma * V[s]) % GammaDen = 0
        /\ ~isTerminal(s) =>
              /\ qNum(V, s, Actions[i]) % PDen = 0
              /\ qValue(V, s, Actions[i]) > BestInit

----------------------------------------------------------------------------
(* Properties *)

\* the run status a status text stands for
statusKind(s) ==
    IF s = StReady THEN "Ready"
    ELSE IF s = StMax THEN "MaxIterationsReached"
    ELSE IF s = StStopped THEN "Stopped"
    ELSE IF s \in {StConvVI, StConvPI} THEN "Converged"
    ELSE "Running"

\* a doOneStep call made at or above the cap (runLoop never makes one)
StepAtCap == iter >= maxIters /\ Step

\* the doOneStep call that takes the counter to the cap
StepToCap == maxIters >= 1 /\ iter = maxIters - 1 /\ iter' = maxIters

FrozenAtCap == status' = StMax /\ V' = V /\ policy' = policy /\ iter' = iter

\* C1 as stated: with cap K >= 1, the K-th doOneStep call from reset
\* leaves the status at "Reached max iterations", and every further call
\* leaves V, policy and iter unchanged.
C1_Original ==
    [][/\ StepToCap => status' = StMax
       /\ StepAtCap => FrozenAtCap]_vars

\* C1 amended: the K-th doOneStep call from reset still sweeps and leaves
\* the status Running or Converged; each call made once iter has reached
\* the cap reports "Reached max iterations" and leaves V, policy and iter
\* unchanged.
C1_MaxIterGuard ==
    [][/\ StepToCap => statusKind(status') \in {"Running", "Converged"}
       /\ StepAtCap => FrozenAtCap]_vars

C1_Witness ==
    /\ maxIters >= 1 /\ iter = maxIters /\ status = StMax
    /\ algo = "VI" /\ ~belowThreshold(lastDelta) /\ ~running
    /\ \A l \in LoopIds : pc[l] = "idle"

\* C2: a runLoop call made while running sets the status to "Stopped", and
\* an activation that was suspended at that moment makes no further
\* doOneStep call: when its timer fires it leaves the loop, whatever
\* Run / Step / Reset clicks arrived in between.
C2_Cancellation ==
    [][/\ RunStop => status' = StStopped /\ ~running'
       /\ \A l \in LoopIds : stopReq'[l] # "ignored"]_vars

\* C3 as stated: once a Policy Iteration improvement sweep was stable
\* (status "Converged (policy stable)"), no call other than resetAll changes
\* V, the policies, the PI phase and counter, or iter.
C3_Original ==
    [][(algo = "PI" /\ status = StConvPI /\ ~Reset) =>
          UNCHANGED <<V, policy, piPolicy, piMode, piEvalSweepsLeft, iter>>]_vars

\* a Policy Iteration improvement sweep that changed no action
StableImprove ==
    /\ algo = "PI" /\ piMode = "IMPROVE"
    /\ iter' = iter + 1 /\ piPolicy' = piPolicy

\* C3 amended: a stable improvement sweep leaves the status Converged and
\* the run flag cleared (with the phase back at EVAL, 10 sweeps left), and
\* a suspended run loop that resumes while the status is still Converged
\* leaves its loop without a further doOneStep call.  Later Step and Run
\* clicks are not blocked.
C3_RunStopsOnceStable ==
    [][/\ StableImprove =>
             /\ status' = StConvPI /\ ~running'
             /\ piMode' = "EVAL" /\ piEvalSweepsLeft' = 10
       /\ \A l \in LoopIds :
             (algo = "PI" /\ status = StConvPI /\ Wake(l)) =>
                 (pc'[l] = "idle" /\ iter' = iter /\ V' = V
                  /\ piPolicy' = piPolicy)]_vars

C3_Witness ==
    /\ algo = "PI" /\ status = StConvPI /\ ~running
    /\ piMode = "EVAL" /\ piEvalSweepsLeft = 10
    /\ pc[1] = "sleeping" /\ pc[2] = "idle" /\ stopReq[1] = "none"

PhaseInv ==
    \/ /\ piMode = "EVAL"
       /\ piEvalSweepsLeft \in 1..10
       /\ iter % 11 = 10 - piEvalSweepsLeft
    \/ /\ piMode = "IMPROVE"
       /\ piEvalSweepsLeft = 0
       /\ iter % 11 = 10

PhaseStep ==
    IF piMode = "EVAL"
    THEN /\ piEvalSweepsLeft' = piEvalSweepsLeft - 1
         /\ piPolicy' = piPolicy
         /\ piMode' = IF piEvalSweepsLeft' = 0 THEN "IMPROVE" ELSE "EVAL"
    ELSE /\ piMode' = "EVAL"
         /\ piEvalSweepsLeft' = 10

\* C4: with Policy Iteration selected, the steps since the last reset are
\* 10 evaluation sweeps (each decrements piEvalSweepsLeft by one and keeps
\* piPolicy), then one improvement sweep, which returns to EVAL with the
\* counter at 10, and so on; no improvement happens while the counter is
\* above 0.
C4_PhaseAlternation ==
    /\ [](algo = "PI" => PhaseInv)
    /\ [][(algo = "PI" /\ iter' = iter + 1) => PhaseStep]_vars

C4_Witness ==
    /\ algo = "PI" /\ iter = 11 /\ status = StImproved
    /\ piMode = "EVAL" /\ piEvalSweepsLeft = 10

DefaultPolicy ==
    [s \in States |-> IF s \in {key(0, 4), key(4, 4)} THEN Null ELSE "R"]

ResetState ==
    /\ V = [s \in States |-> 0]
    /\ policy = DefaultPolicy
    /\ piPolicy = DefaultPolicy
    /\ piMode = "EVAL"
    /\ piEvalSweepsLeft = 10
    /\ iter = 0
    /\ lastDelta = 0
    /\ ~running
    /\ status = StReady

\* C5: from every reachable state resetAll leads to the one reset state
\* (V all 0, both policies the default, EVAL with 10 sweeps left, iter 0,
\* lastDelta 0, not running, "Ready"), and resetAll applied twice gives
\* what it gives applied once.
C5_ResetIdempotent ==
    /\ [](resetAll(resetAll(Cur)) = resetAll(Cur))
    /\ [][Reset => ResetState']_vars

C5_Witness ==
    /\ ResetState
    /\ \E l \in LoopIds : pc[l] = "sleeping"

ValidConfig ==
    /\ maxIters > 0
    /\ gamma >= 0 /\ gamma <= GammaDen
    /\ slip >= 0 /\ slip <= SlipDen

\* C6: resetAll called with an invalid configuration (a cap that is not
\* positive, gamma or slip outside [0,1]) leaves the solver state unchanged.
C6_InvalidConfigRejected ==
    [][(Reset /\ ~ValidConfig) => UNCHANGED solver]_vars

\* the engine signalled convergence on the step just made
ConvergenceSignal ==
    IF algo = "VI" THEN belowThreshold(lastDelta')
    ELSE piMode = "IMPROVE" /\ piPolicy' = piPolicy

\* the step just made was one sweep of the selected engine
OneSweep ==
    IF algo = "VI"
    THEN /\ lastDelta' = MaxOf({Abs(V'[s] - V[s]) : s \in States})
         /\ \A s \in {key(0, 4), key(4, 4)} : V'[s] = 0
    ELSE IF piMode = "EVAL" THEN piEvalSweepsLeft' = piEvalSweepsLeft - 1
    ELSE V' = V /\ piMode' = "EVAL"

\* C7: a doOneStep call made while iter is below the cap makes one sweep of
\* the selected engine, adds exactly 1 to iter, and leaves the status
\* Converged if the engine signalled convergence on that step (VI: lastDelta
\* below 1e-4; PI: stable improvement sweep) and Running otherwise; iter
\* grows in no other way.
C7_StepStatus ==
    [][/\ (iter < maxIters /\ iter' # iter + 1) => ~Step
       /\ iter' > iter =>
             /\ iter < maxIters
             /\ iter' = iter + 1
             /\ OneSweep
             /\ statusKind(status') =
                   IF ConvergenceSignal THEN "Converged" ELSE "Running"]_vars

C7_Witness ==
    /\ algo = "PI" /\ iter = 22 /\ status = StConvPI

Cap == IF maxIters > 0 THEN maxIters ELSE 0

\* C8: a run that is not interfered with stops: its activation leaves the
\* loop (weak fairness of its timer), after at most cap doOneStep calls,
\* and when it does the status is Converged or MaxIterationsReached.
C8_RunTerminates ==
    /\ \A l \in LoopIds : (pc[l] = "sleeping") ~> (pc[l] = "idle")
    /\ [](\A l \in LoopIds : nsteps[l] <= Cap)
    /\ [][\A l \in LoopIds :
            (pc'[l] = "idle" /\ (pc[l] = "sleeping" \/ RunStartCounted(l)))
            => statusKind(status') \in {"Converged", "MaxIterationsReached"}]_vars

C8_Witness ==
    /\ Quiet /\ nsteps[1] = maxIters /\ maxIters > 2 /\ status = StMax

RECURSIVE sumP(_, _)
sumP(ts, i) == IF i > Len(ts) THEN 0 ELSE ts[i].p + sumP(ts, i + 1)

\* C9: for every non-wall state, action and slip in [0,1], the
\* probabilities of the outcomes of transitions(state, action) sum to 1
\* (PDen counts of 1/PDen), and none is negative.
C9_ProbabilityConservation ==
    call.fn = "transitions" =>
        /\ sumP(call.out, 1) = PDen
        /\ \A i \in 1..Len(call.out) : call.out[i].p >= 0

C9_Witness ==
    /\ call.fn = "transitions" /\ ~isTerminal(call.s)
    /\ slip = SlipDen /\ Len(call.out) = 4

\* C10: for a terminal state and any action, transitions returns the single
\* outcome (probability 1, the same state, reward 0), and nextStateDet
\* returns that same state.
C10_TerminalAbsorption ==
    /\ (call.fn = "transitions" /\ call.s \in {key(0, 4), key(4, 4)}) =>
           call.out = << [p |-> PDen, ns |-> call.s, r |-> 0] >>
    /\ (call.fn = "nextStateDet" /\ call.s \in {key(0, 4), key(4, 4)}) =>
           call.det = call.s

C10_Witness ==
    /\ call.fn = "nextStateDet" /\ call.s = key(0, 4) /\ call.a = "D"
    /\ call.det = key(0, 4)

\* Q(s,a) of every action, from table Vt
QSet(Vt, s) == {qValue(Vt, s, Actions[i]) : i \in 1..Len(Actions)}

\* the Bellman-optimality backup of the current table
BellmanV ==
    [s \in States |->
        IF isTerminal(s) THEN 0
        ELSE CHOOSE q \in QSet(V, s) : \A z \in QSet(V, s) : q >= z]

\* C11: a Value Iteration sweep replaces V by its Bellman-optimality
\* backup, every Q(s,a) = sum of p*(r + gamma*V[ns]) being computed from
\* the table as it was before the sweep; terminal states get 0, and
\* lastDelta is the largest |newV[s] - V[s]| over the states.
C11_BellmanUpdate ==
    [][(algo = "VI" /\ iter' = iter + 1) =>
          /\ V' = BellmanV
          /\ lastDelta' = MaxOf({Abs(V'[s] - V[s]) : s \in States})]_vars

C11_Witness ==
    /\ algo = "VI" /\ gamma = GammaDen /\ iter = 2
    /\ V[key(0, 3)] = 10 * VScale
    /\ V[key(1, 3)] = 9 * VScale
    /\ V[key(2, 3)] = (0 - 2) * VScale
    /\ lastDelta = 10 * VScale

\* Q(s,a) of the actions, in the order of Actions
QSeq(Vt, s) == [i \in 1..Len(Actions) |-> qValue(Vt, s, Actions[i])]

\* a is the first action, in the order Up, Down, Left, Right, whose Q is
\* at least the Q of every other action
FirstBest(Vt, s, a) ==
    With(QSeq(Vt, s), LAMBDA q :
        \E i \in 1..Len(Actions) :
            /\ Actions[i] = a
            /\ \A j \in 1..Len(Actions) : q[i] >= q[j]
            /\ \A j \in 1..(i - 1) : q[j] < q[i])

\* pol is the greedy policy of Vt, with ties going to the first action
GreedyOf(pol, Vt) ==
    \A s \in States :
        IF s \in {key(0, 4), key(4, 4)} THEN pol[s] = Null
        ELSE FirstBest(Vt, s, pol[s])

\* C12: greedyPolicyFromV, on every table the solver reaches and after
\* every Value Iteration sweep, and the improvement sweep of Policy
\* Iteration give each non-terminal state an action whose Q is at least
\* that of every other action, the first such in the order Up, Down, Left,
\* Right; terminal states get no action.
C12_GreedyTieBreak ==
    /\ [](GreedyOf(greedyPolicyFromV(V), V))
    /\ [][/\ (algo = "VI" /\ iter' = iter + 1) => GreedyOf(policy', V')
          /\ (algo = "PI" /\ piMode = "IMPROVE" /\ iter' = iter + 1) =>
                (GreedyOf(piPolicy', V) /\ policy' = piPolicy')]_vars

C12_Witness ==
    /\ algo = "VI" /\ iter = 1 /\ gamma = 0 /\ slip = 0
    /\ Cardinality(QSet(V, key(4, 0))) = 1
    /\ policy[key(4, 0)] = "U"
    /\ policy[key(0, 3)] = "R"

\* activation l is suspended and calls doOneStep if its timer fires now
AbleToStep(l) ==
    /\ pc[l] = "sleeping"
    /\ iter < maxIters
    /\ running
    /\ ~(algo = "VI" /\ belowThreshold(lastDelta))
    /\ ~includesConverged(status)

\* C14: whatever the order of the Run, Step and Reset clicks and of the
\* timers, at most one runLoop activation is suspended and calls doOneStep
\* when it resumes.
C14_SingleWriter ==
    Cardinality({l \in LoopIds : AbleToStep(l)}) <= 1

\* C17: with a positive cap, running is true only while a runLoop
\* activation is started and has not left its loop; in particular it is
\* false once a run has ended because iter reached the cap.
C17_RunningTracksLoop ==
    (maxIters >= 1 /\ running) => \E l \in LoopIds : pc[l] = "sleeping"

\* C18: an activation that leaves its loop after a doOneStep call that
\* signalled convergence (the status was Converged when its timer fired)
\* leaves the status Converged.
C18_ConvergedRunStatus ==
    [][\A l \in LoopIds :
          (Wake(l) /\ pc'[l] = "idle" /\ statusKind(status) = "Converged")
          => statusKind(status') = "Converged"]_vars

\* C19: iter never exceeds the cap, under every interleaving of the Step,
\* Run and Reset clicks and of the timers of overlapping activations.
C19_IterWithinCap == iter <= maxIters

C19_Witness ==
    /\ iter = maxIters /\ maxIters > 2 /\ running
    /\ pc[1] = "sleeping" /\ pc[2] = "sleeping"

\* C20: a Value Iteration step leaves piPolicy, piMode and piEvalSweepsLeft
\* unchanged; a Policy Iteration evaluation step leaves piPolicy unchanged
\* and sets policy equal to it; a Policy Iteration improvement step leaves
\* V unchanged.
C20_EngineFrames ==
    [][/\ (algo = "VI" /\ iter' = iter + 1) =>
             UNCHANGED <<piPolicy, piMode, piEvalSweepsLeft>>
       /\ (algo = "PI" /\ piMode = "EVAL" /\ iter' = iter + 1) =>
             (piPolicy' = piPolicy /\ policy' = piPolicy)
       /\ (algo = "PI" /\ piMode = "IMPROVE" /\ iter' = iter + 1) =>
             V' = V]_vars

C20_Witness ==
    /\ algo = "PI" /\ iter = 12 /\ piMode = "EVAL" /\ piEvalSweepsLeft = 9
    /\ policy = piPolicy /\ piPolicy # DefaultPolicy
    /\ greedyPolicyFromV(V) # piPolicy

\* the cell an action aims at
Target(s, a) ==
    IF a = "U" THEN <<s[1] - 1, s[2]>>
    ELSE IF a = "D" THEN <<s[1] + 1, s[2]>>
    ELSE IF a = "L" THEN <<s[1], s[2] - 1>>
    ELSE <<s[1], s[2] + 1>>

\* the cells of the grid that are not walls
FreeCells == ((0..4) \X (0..4)) \ {<<1, 1>>, <<1, 2>>, <<2, 2>>}

\* C15: for a non-terminal non-wall state and any action, nextStateDet
\* returns the state itself when the target cell is outside the grid or a
\* wall, and the target cell otherwise; so the resulting state of every
\* outcome of transitions is an in-bounds non-wall cell with an entry in V.
C15_DeterministicMove ==
    /\ (call.fn = "nextStateDet" /\ call.s \notin {<<0, 4>>, <<4, 4>>}) =>
           call.det = IF Target(call.s, call.a) \in FreeCells
                      THEN Target(call.s, call.a) ELSE call.s
    /\ call.fn = "transitions" =>
           \A i \in 1..Len(call.out) :
               /\ call.out[i].ns \in FreeCells
               /\ call.out[i].ns \in DOMAIN V

C15_Witness ==
    /\ call.fn = "nextStateDet" /\ call.s = key(0, 1) /\ call.a = "D"
    /\ call.det = key(0, 1)

\* the three other actions, in the order Up, Down, Left, Right
OthersOf ==
    ("U" :> <<"D", "L", "R">>) @@ ("D" :> <<"U", "L", "R">>) @@
    ("L" :> <<"U", "D", "R">>) @@ ("R" :> <<"U", "D", "L">>)

\* the reward of arriving in ns, in counts of 1/VScale
RewardOf(ns) ==
    IF ns = <<0, 4>> THEN 10 * VScale
    ELSE IF ns = <<4, 4>> THEN (0 - 10) * VScale
    ELSE stepReward * VScale

\* C16: for a non-terminal state, transitions returns exactly four
\* outcomes: the intended move with probability 1 - slip, then the moves of
\* the other three actions in the order Up, Down, Left, Right, each with
\* probability slip/3 (also when slip = 0); the reward of an outcome is the
\* terminal reward of its resulting state if that is terminal and the step
\* reward otherwise, bounces included.
C16_OutcomeStructure ==
    (call.fn = "transitions" /\ call.s \notin {<<0, 4>>, <<4, 4>>}) =>
        /\ Len(call.out) = 4
        /\ call.out[1].p * SlipDen = PDen * (SlipDen - slip)
        /\ call.out[1].ns = nextStateDet(call.s[1], call.s[2], call.a)
        /\ \A i \in 1..3 :
              /\ call.out[i + 1].p * 3 * SlipDen = PDen * slip
              /\ call.out[i + 1].ns =
                    nextStateDet(call.s[1], call.s[2], OthersOf[call.a][i])
        /\ \A i \in 1..4 : call.out[i].r = RewardOf(call.out[i].ns)

C16_Witness ==
    /\ call.fn = "transitions" /\ slip = 0
    /\ call.s = key(0, 3) /\ call.a = "R"
    /\ Len(call.out) = 4
    /\ call.out[1].r = 10 * VScale
    /\ call.out[2].p = 0 /\ call.out[2].ns = key(0, 3)
    /\ call.out[2].r = stepReward * VScale

====
